---- MODULE Spec2Model ----
(***************************************************************************)
(* Mechanic shop API: token guards, customer / mechanic / inventory        *)
(* stores and the ticket <-> mechanic / ticket <-> part relations.          *)
(* Every HTTP request is one atomic step: guard decorator(s) followed by   *)
(* the route handler, ending with the commit or rollback of the handler.   *)
(* The rate limiter is counted on assign-mechanic, the route that sets its *)
(* own ceiling; on the other routes the requests are those it admits.      *)
(* Libraries (schema loading, JWT signatures, the ORM session) behave as   *)
(* the handlers use them; the attributes and constraints that the model    *)
(* classes of the repository declare are those of the tables.              *)
(***************************************************************************)
EXTENDS Integers, Sequences, FiniteSets, TLC

\* ------------------------------------------------------------------ bounds
MaxCust == 2
MaxMech == 2
MaxTicket == 1
MaxInv == 2
MaxTicks == 2
MaxHeld == 1
MaxRows == 120
TickHours == 13

\* ------------------------------------------------------- program constants
ValidityDays == 1
ValidityHours == 24
\* @limiter.limit("20 per minute") on assign-mechanic
AssignLimit == 20
\* per_page = min(per_page, 100), and its default of 10
PerPageCap == 100
DefaultPerPage == 10

\* ------------------------------------------------------------ value spaces
CustIds == 1..MaxCust
MechIds == 1..MaxMech
TicketIds == 1..MaxTicket
InvIds == 1..MaxInv

NoRow == [none |-> TRUE]
NoHeader == <<>>

CustEmails == {"a@x.com", "A@x.com"}
MechEmails == {"m@x.com", "M@x.com", "n@x.com"}
Passwords == {"p", "q"}

\* str.lower() on the strings the model uses
Lower(s) ==
  CASE s = "A@x.com" -> "a@x.com"
    [] s = "M@x.com" -> "m@x.com"
    [] s = "Bolt" -> "bolt"
    [] s = "OLT" -> "olt"
    [] OTHER -> s

\* str(n) and int(s): the subject travels either as a number or as its
\* decimal string
StrOf(n) == [t |-> "str", v |-> n]
IntOf(n) == [t |-> "int", v |-> n]
ToInt(x) == x.v

\* -------------------------------------------------------------- the state
VARIABLES
  customers,    \* customers table: id -> row or NoRow
  mechanics,    \* mechanics table: id -> row or NoRow
  tickets,      \* service_tickets table: id -> row or NoRow
  inventory,    \* inventory table: id -> row or NoRow
  ticketMechs,  \* service_mechanics association: ticket id -> set of mechanic ids
  ticketParts,  \* service_inventory association: ticket id -> set of inventory ids
  cache,        \* the "all_inventory" cache entry
  now,          \* wall clock, in hours
  held,         \* tokens issued so far and still kept by clients
  revoked,      \* history: held tokens whose principal was deleted after issue
  resp,         \* the last request and its response
  hits,         \* rate limiter: caller -> assign requests counted in this minute
  flight        \* requests served by concurrent workers, and the rows they wrote

vars == <<customers, mechanics, tickets, inventory, ticketMechs, ticketParts,
          cache, now, held, revoked, resp, hits, flight>>
\* what a request served on its own leaves alone: the time, what the rate
\* limiter counted in its current window, and the requests in flight
clock == <<now, hits, flight>>

store == <<customers, mechanics, tickets, inventory, ticketMechs, ticketParts, cache>>

NoCache == [none |-> TRUE]

\* ------------------------------------------------------------- store reads
Exists(table, id) == id \in DOMAIN table /\ table[id] # NoRow
Rows(table) == {i \in DOMAIN table : table[i] # NoRow}

Max(S) == CHOOSE x \in S : \A y \in S : y <= x

\* INTEGER PRIMARY KEY on SQLite without AUTOINCREMENT: one more than the
\* largest id currently in use
NextId(table) == IF Rows(table) = {} THEN 1 ELSE Max(Rows(table)) + 1

\* ---------------------------------------------------------------- tokens
\* the Python value None and the empty string, where a token is expected
NoToken == [sub |-> IntOf(0), role |-> "none", iat |-> 0, exp |-> 0, sig |-> "absent"]
EmptyToken == [sub |-> IntOf(0), role |-> "none", iat |-> 0, exp |-> 0, sig |-> "empty"]

\* app/auth.py: exp = utcnow + timedelta(days=1), sub = the id as given
encode_mechanic_token(mechanic_id) ==
  [sub |-> IntOf(mechanic_id), role |-> "mechanic", iat |-> now,
   exp |-> now + ValidityDays * 24, sig |-> "ok"]

\* app/utils/auth.py: exp = utcnow + timedelta(hours=24), sub = str(id)
encode_token(customer_id) ==
  [sub |-> StrOf(customer_id), role |-> "none", iat |-> now,
   exp |-> now + ValidityHours, sig |-> "ok"]

\* a token that was not signed with the server's secret
ForgedToken == [sub |-> IntOf(1), role |-> "mechanic", iat |-> 0,
                exp |-> (MaxTicks + 2) * TickHours, sig |-> "bad"]

\* python-jose jwt.decode: signature, then exp (expired when exp < now)
JoseDecodesNoExp(token) == token.sig = "ok"
JoseDecodes(token) == token.sig = "ok" /\ ~(token.exp < now)

\* PyJWT jwt.decode: signature, then exp (expired when exp <= now)
PyJwtDecodes(token) == token.sig = "ok" /\ ~(token.exp <= now)

\* -------------------------------------------------------------- headers
\* An Authorization header is the sequence of its space separated parts, so
\* header.split(" ") is the header itself; NoHeader is an absent header.
Word(s) == [word |-> s, tok |-> NoToken]
Jwt(token) == [word |-> "", tok |-> token]
Bearer(token) == <<Word("Bearer"), Jwt(token)>>
OtherScheme(token) == <<Word("Token"), Jwt(token)>>
BareToken(token) == <<Jwt(token)>>
BearerBlank == <<Word("Bearer"), Jwt(EmptyToken)>>

\* auth_header.startswith("Bearer ")
StartsWithBearer(hdr) == Len(hdr) >= 2 /\ hdr[1].word = "Bearer"

\* `not token`
Falsy(token) == token = NoToken \/ token = EmptyToken

\* ---------------------------------------------------------------- guards
\* A guard yields the status it returns itself (0: the handler is called)
\* and the value it injects into the handler.
Deny(code) == [code |-> code, inject |-> IntOf(0)]
Pass(value) == [code |-> 0, inject |-> value]

\* Query.get(pk): the primary key is compared as an integer
QueryGet(table, pk) == IF Exists(table, ToInt(pk)) THEN table[ToInt(pk)] ELSE NoRow

\* app/auth.py token_required
AuthTokenRequired(hdr) ==
  LET token == IF hdr # NoHeader /\ StartsWithBearer(hdr) THEN hdr[2].tok ELSE NoToken
  IN IF Falsy(token) THEN Deny(401)
     ELSE IF ~JoseDecodes(token) THEN Deny(401)
     ELSE IF QueryGet(customers, token.sub) = NoRow THEN Deny(401)
     ELSE Pass(token.sub)

\* app/auth.py mechanic_token_required
MechanicTokenRequiredNoRole(hdr) ==
  LET token == IF hdr # NoHeader /\ StartsWithBearer(hdr) THEN hdr[2].tok ELSE NoToken
  IN IF Falsy(token) THEN Deny(401)
     ELSE IF ~JoseDecodes(token) THEN Deny(401)
     ELSE IF QueryGet(mechanics, token.sub) = NoRow THEN Deny(401)
     ELSE Pass(token.sub)
MechanicTokenRequired(hdr) ==
  LET token == IF hdr # NoHeader /\ StartsWithBearer(hdr) THEN hdr[2].tok ELSE NoToken
  IN IF Falsy(token) THEN Deny(401)
     ELSE IF ~JoseDecodes(token) THEN Deny(401)
     ELSE IF token.role # "mechanic" THEN Deny(403)
     ELSE IF QueryGet(mechanics, token.sub) = NoRow THEN Deny(401)
     ELSE Pass(token.sub)

\* app/utils/auth.py decode_token: the subject as an int, or an error string
decode_token(token) ==
  IF token.sig # "ok" THEN [err |-> "Invalid token", id |-> IntOf(0)]
  ELSE IF ~PyJwtDecodes(token) THEN [err |-> "Token has expired", id |-> IntOf(0)]
  ELSE [err |-> "", id |-> IntOf(ToInt(token.sub))]

\* app/utils/auth.py token_required
UtilsTokenRequired(hdr) ==
  IF hdr # NoHeader /\ Len(hdr) < 2 THEN Deny(401)
  ELSE LET token == IF hdr # NoHeader THEN hdr[2].tok ELSE NoToken
       IN IF Falsy(token) THEN Deny(401)
          ELSE LET customer_id == decode_token(token)
               IN IF customer_id.err # "" THEN Deny(401)
                  ELSE IF QueryGet(customers, customer_id.id) = NoRow THEN Deny(401)
                  ELSE Pass(customer_id.id)

\* f(name=value, **kwargs): a TypeError when the route's path arguments
\* already carry the injected keyword
KeywordCollision(injected, pathArgs) == injected \in pathArgs

\* x.id on the injected value: an AttributeError unless x is a model row
HasIdAttr(x) == x.t = "row"

\* ----------------------------------------------------------- rate limiter
\* key_func=get_remote_address: a caller is a remote address
Callers == {"10.0.0.1", "10.0.0.2"}

\* the limiter admits a request while the caller's count in the current
\* window is below the ceiling
AdmitsOneMore(caller) == hits[caller] <= AssignLimit
Admits(caller) == hits[caller] < AssignLimit

\* ---------------------------------------------------------------- replies
\* the query string of a list request: the parameters that were sent
NoQuery == [fields |-> {}, name |-> "", min_price |-> 0, max_price |-> 0]

R0 == [op |-> "init", status |-> 0, hdr |-> NoHeader, guard |-> "none",
       a |-> 0, b |-> 0, add |-> {}, remove |-> {},
       changes |-> <<>>, errors |-> <<>>, text |-> "",
       q |-> NoQuery, items |-> {}, dropped |-> FALSE, keys |-> {},
       caller |-> "",
       pg |-> [total |-> 0, asked |-> 0, page |-> 0, per_page |-> 0, count |-> 0]]

\* two worker threads, each serving one request at a time with a session of
\* its own
Workers == {1, 2}

\* a worker that serves no request; `during` names the workers whose request
\* had read and not yet committed when this one read
NoFlight ==
  [pc |-> "idle", op |-> "", status |-> 0, a |-> 0, add |-> {}, remove |-> {},
   out |-> {}, ins |-> {}, del |-> {}, changes |-> <<>>, errors |-> <<>>,
   q |-> NoQuery, items |-> {}, during |-> {}]

\* no request in flight; rows counts the rows of the association table of
\* tickets and mechanics, pair by pair
NoFlights ==
  [req |-> [w \in Workers |-> NoFlight],
   rows |-> [p \in TicketIds \X MechIds |-> 0]]

GuardTag(g) == IF g.code = 0 THEN "pass" ELSE "denied"

\* no request is being answered
Idle == resp = R0

Reply(op, hdr, tag, a, b, status) ==
  [R0 EXCEPT !.op = op, !.hdr = hdr, !.guard = tag, !.a = a, !.b = b,
             !.status = status]

Init ==
  /\ customers = [i \in CustIds |-> NoRow]
  /\ mechanics = [i \in MechIds |-> NoRow]
  /\ tickets = [i \in TicketIds |-> NoRow]
  /\ inventory = [i \in InvIds |-> NoRow]
  /\ ticketMechs = [i \in TicketIds |-> {}]
  /\ ticketParts = [i \in TicketIds |-> {}]
  /\ cache = NoCache
  /\ now = 0
  /\ held = {}
  /\ revoked = {}
  /\ resp = R0
  /\ hits = [c \in Callers |-> 0]
  /\ flight = NoFlights

\* The database file outlives the process: a database that already holds
\* customer 1 and ticket 1, which belongs to customer 1.
InitSeeded ==
  /\ customers = [i \in CustIds |->
                    IF i = 1
                    THEN [t |-> "row", id |-> 1, email |-> "a@x.com", pw |-> "p",
                          first_name |-> "Ann"]
                    ELSE NoRow]
  /\ mechanics = [i \in MechIds |-> NoRow]
  /\ tickets = [i \in TicketIds |->
                  IF i = 1 THEN [t |-> "row", id |-> 1, customer_id |-> 1] ELSE NoRow]
  /\ inventory = [i \in InvIds |-> NoRow]
  /\ ticketMechs = [i \in TicketIds |-> {}]
  /\ ticketParts = [i \in TicketIds |-> {}]
  /\ cache = NoCache
  /\ now = 0
  /\ held = {}
  /\ revoked = {}
  /\ resp = R0
  /\ hits = [c \in Callers |-> 0]
  /\ flight = NoFlights

\* --------------------------------------------------------------- clients
\* A client keeps the token a login returns; it keeps at most MaxHeld of them.
Keep(token) ==
  /\ \/ /\ token \in held \/ Cardinality(held) < MaxHeld
        /\ held' = held \cup {token}
     \/ /\ token \notin held /\ Cardinality(held) >= MaxHeld
        /\ \E old \in held : held' = (held \ {old}) \cup {token}
  /\ revoked' = (revoked \ {token}) \cap held'

\* the principal (kind, id) is gone: remember which held tokens were its own
Revoke(role, id) ==
  revoked' = revoked \cup
    {t \in held : ToInt(t.sub) = id /\ (t.role = "mechanic") = (role = "mechanic")}

\* what a client can put into the Authorization header
Tokens == held \cup {ForgedToken}
Headers ==
  {NoHeader, BearerBlank}
    \cup {Bearer(t) : t \in Tokens}
    \cup {OtherScheme(t) : t \in held}
    \cup {BareToken(t) : t \in held}

Absent == "<absent>"

\* ------------------------------------------------------------- customers
\* validate_email: the addresses of CustEmails are well formed, "bad" is not
validate_email(email) == email \in CustEmails \cup MechEmails

CustomerRow(id, data) ==
  [t |-> "row", id |-> id, email |-> data.email, pw |-> data.password,
   first_name |-> data.first_name]

\* Customer.query.filter_by(email=...): the comparison is exact
CustomerByEmail(email) == {i \in Rows(customers) : customers[i].email = email}

\* the attributes the Customer class defines: its columns and its
\* relationship; Customer(...) refuses a keyword that is none of them
CustomerColumns ==
  {"id", "first_name", "last_name", "email", "phone_number", "password_hash"}
CustomerAttrs == CustomerColumns \cup {"service_tickets"}

\* the keywords create_customer passes to Customer(...)
CustomerKeywordsGiven ==
  {"first_name", "last_name", "email", "phone_number", "address"}

\* customer_schema.dump: the columns, without the excluded password_hash;
\* password is load_only
CustomerSchemaExclude == {"password_hash"}
CustomerDumpKeys == CustomerColumns \ CustomerSchemaExclude

\* POST /customers/: the TypeError of the constructor is answered 500
CreateCustomer(data) ==
  LET id == NextId(customers)
      status == IF ~data.complete THEN 400
                ELSE IF ~validate_email(data.email) THEN 400
                ELSE IF CustomerByEmail(data.email) # {} THEN 400
                ELSE IF ~(CustomerKeywordsGiven \subseteq CustomerAttrs) THEN 500
                ELSE 201
  IN /\ Idle
     /\ status = 201 => id \in CustIds
     /\ customers' = IF status = 201
                     THEN [customers EXCEPT ![id] = CustomerRow(id, data)]
                     ELSE customers
     /\ resp' = [Reply("create_customer", NoHeader, "none",
                       IF status = 201 THEN id ELSE 0, 0, status)
                 EXCEPT !.text = data.email,
                        !.keys = IF status = 201 THEN CustomerDumpKeys ELSE {"error"}]
     /\ UNCHANGED <<mechanics, tickets, inventory, ticketMechs, ticketParts,
                    cache, clock, held, revoked>>

\* GET /customers/<customer_id>
GetCustomer(customer_id) ==
  LET status == IF ~Exists(customers, customer_id) THEN 404 ELSE 200
  IN /\ Idle
     /\ resp' = [Reply("get_customer", NoHeader, "none", customer_id, 0, status)
                 EXCEPT !.text = IF status = 200 THEN customers[customer_id].email ELSE "",
                        !.keys = IF status = 200 THEN CustomerDumpKeys ELSE {"error"}]
     /\ UNCHANGED <<store, clock, held, revoked>>

\* GET /customers/
GetAllCustomers ==
  /\ Idle
  /\ resp' = [Reply("get_all_customers", NoHeader, "none", 0,
                    Cardinality(Rows(customers)), 200)
              EXCEPT !.keys = {"customers", "count"}
                              \cup (IF Rows(customers) # {} THEN CustomerDumpKeys ELSE {})]
  /\ UNCHANGED <<store, clock, held, revoked>>

\* LoginResponseSchema: message, token and the customer
LoginResponseKeys == {"message", "token", "customer"} \cup CustomerDumpKeys

\* generate_token(customer.id, customer.email)
generate_token(customer_id, email) ==
  [encode_token(customer_id) EXCEPT !.role = "customer"]

\* POST /customers/login
Login(data) ==
  LET found == CustomerByEmail(data.email)
      customer == customers[CHOOSE i \in found : TRUE]
      status == IF found = {} THEN 401
                ELSE IF customer.pw # data.password THEN 401
                ELSE 200
  IN /\ Idle
     /\ resp' = [Reply("login", NoHeader, "none",
                       IF status = 200 THEN customer.id ELSE 0, 0, status)
                 EXCEPT !.text = data.email,
                        !.keys = IF status = 200 THEN LoginResponseKeys ELSE {"error"}]
     /\ IF status = 200
        THEN Keep(generate_token(customer.id, customer.email))
        ELSE UNCHANGED <<held, revoked>>
     /\ UNCHANGED <<store, clock>>

\* PUT /customers/<customer_id>
UpdateCustomer(hdr, customer_id, data) ==
  LET g == UtilsTokenRequired(hdr)
      current_customer == g.inject
      customer == customers[customer_id]
      clash == {i \in CustomerByEmail(data.email) : i # customer_id}
      status ==
        IF g.code # 0 THEN g.code
        ELSE IF ~HasIdAttr(current_customer) THEN 500
        ELSE IF current_customer.id # customer_id THEN 403
        ELSE IF ~Exists(customers, customer_id) THEN 404
        ELSE IF data.email # Absent /\ ~validate_email(data.email) THEN 400
        ELSE IF data.email # Absent /\ clash # {} THEN 409
        ELSE 200
  IN /\ Idle
     /\ customers' =
          IF status = 200
          THEN [customers EXCEPT ![customer_id] =
                  [customer EXCEPT
                     !.first_name = IF data.first_name # Absent
                                    THEN data.first_name ELSE @,
                     !.email = IF data.email # Absent THEN data.email ELSE @]]
          ELSE customers
     /\ resp' = [Reply("update_customer", hdr, GuardTag(g), customer_id, 0, status)
                 EXCEPT !.text = data.email,
                        !.keys = IF status = 200 THEN CustomerDumpKeys ELSE {"error"}]
     /\ UNCHANGED <<mechanics, tickets, inventory, ticketMechs, ticketParts,
                    cache, clock, held, revoked>>

\* db.session.delete(customer): the customer's tickets would be left with a
\* NULL customer_id, which the NOT NULL column refuses
HasTickets(customer_id) ==
  \E t \in Rows(tickets) : tickets[t].customer_id = customer_id

\* DELETE /customers/<customer_id>
DeleteCustomerUnchecked(hdr, customer_id) ==
  LET g == UtilsTokenRequired(hdr)
      status == IF g.code # 0 THEN g.code
                ELSE IF ~Exists(customers, customer_id) THEN 404
                ELSE 200
  IN /\ Idle
     /\ customers' = IF status = 200
                     THEN [customers EXCEPT ![customer_id] = NoRow]
                     ELSE customers
     /\ IF status = 200 THEN Revoke("customer", customer_id)
                        ELSE UNCHANGED revoked
     /\ resp' = Reply("delete_customer", hdr, GuardTag(g), customer_id, 0, status)
     /\ UNCHANGED <<mechanics, tickets, inventory, ticketMechs, ticketParts,
                    cache, clock, held>>

\* current_customer is the id the guard injected, an int without .id: 500
DeleteCustomer(hdr, customer_id) ==
  LET g == UtilsTokenRequired(hdr)
      current_customer == g.inject
      status ==
        IF g.code # 0 THEN g.code
        ELSE IF ~HasIdAttr(current_customer) THEN 500
        ELSE IF current_customer.id # customer_id THEN 403
        ELSE IF ~Exists(customers, customer_id) THEN 404
        ELSE IF HasTickets(customer_id) THEN 500
        ELSE 200
  IN /\ Idle
     /\ customers' = IF status = 200
                     THEN [customers EXCEPT ![customer_id] = NoRow]
                     ELSE customers
     /\ IF status = 200 THEN Revoke("customer", customer_id)
                        ELSE UNCHANGED revoked
     /\ resp' = Reply("delete_customer", hdr, GuardTag(g), customer_id, 0, status)
     /\ UNCHANGED <<mechanics, tickets, inventory, ticketMechs, ticketParts,
                    cache, clock, held>>

\* GET /customers/my-tickets
GetMyTickets(hdr) ==
  LET g == UtilsTokenRequired(hdr)
      current_customer == g.inject
      status == IF g.code # 0 THEN g.code
                ELSE IF ~HasIdAttr(current_customer) THEN 500
                ELSE 200
  IN /\ Idle
     /\ resp' = [Reply("get_my_tickets", hdr, GuardTag(g), 0, 0, status)
                 EXCEPT !.add = IF status = 200
                                THEN {t \in Rows(tickets) :
                                        tickets[t].customer_id = current_customer.id}
                                ELSE {}]
     /\ UNCHANGED <<store, clock, held, revoked>>


\* ------------------------------------------------------------- mechanics
MechanicRow(id, data) == [t |-> "row", id |-> id, email |-> data.email]

\* Mechanic.query.filter_by(email=...): the comparison is exact
MechanicByEmail(email) == {i \in Rows(mechanics) : mechanics[i].email = email}

\* POST /mechanics/
CreateMechanic(data) ==
  LET id == NextId(mechanics)
      status == IF ~data.complete THEN 400
                ELSE IF MechanicByEmail(data.email) # {} THEN 400
                ELSE 201
  IN /\ Idle
     /\ status = 201 => id \in MechIds
     /\ mechanics' = IF status = 201
                     THEN [mechanics EXCEPT ![id] = MechanicRow(id, data)]
                     ELSE mechanics
     /\ resp' = [Reply("create_mechanic", NoHeader, "none",
                       IF status = 201 THEN id ELSE 0, 0, status)
                 EXCEPT !.text = data.email]
     /\ UNCHANGED <<customers, tickets, inventory, ticketMechs, ticketParts,
                    cache, clock, held, revoked>>

\* PUT /mechanics/<mechanic_id>: the UNIQUE(email) constraint fails the commit
UpdateMechanic(mechanic_id, data) ==
  LET clash == {i \in MechanicByEmail(data.email) : i # mechanic_id}
      status == IF ~Exists(mechanics, mechanic_id) THEN 404
                ELSE IF ~data.complete THEN 400
                ELSE IF clash # {} THEN 400
                ELSE 200
  IN /\ Idle
     /\ mechanics' = IF status = 200
                     THEN [mechanics EXCEPT ![mechanic_id].email = data.email]
                     ELSE mechanics
     /\ resp' = [Reply("update_mechanic", NoHeader, "none", mechanic_id, 0, status)
                 EXCEPT !.text = data.email]
     /\ UNCHANGED <<customers, tickets, inventory, ticketMechs, ticketParts,
                    cache, clock, held, revoked>>

\* DELETE /mechanics/<mechanic_id>: the ORM deletes the mechanic's rows of the
\* secondary table together with the mechanic
DeleteMechanicKeepRows(mechanic_id) ==
  LET status == IF ~Exists(mechanics, mechanic_id) THEN 404 ELSE 200
  IN /\ Idle
     /\ mechanics' = IF status = 200
                     THEN [mechanics EXCEPT ![mechanic_id] = NoRow]
                     ELSE mechanics
     /\ IF status = 200 THEN Revoke("mechanic", mechanic_id)
                        ELSE UNCHANGED revoked
     /\ resp' = Reply("delete_mechanic", NoHeader, "none", mechanic_id, 0, status)
     /\ UNCHANGED <<customers, tickets, inventory, ticketMechs, ticketParts,
                    cache, clock, held>>
DeleteMechanic(mechanic_id) ==
  LET status == IF ~Exists(mechanics, mechanic_id) THEN 404 ELSE 200
  IN /\ Idle
     /\ mechanics' = IF status = 200
                     THEN [mechanics EXCEPT ![mechanic_id] = NoRow]
                     ELSE mechanics
     /\ ticketMechs' = IF status = 200
                       THEN [t \in TicketIds |-> ticketMechs[t] \ {mechanic_id}]
                       ELSE ticketMechs
     /\ IF status = 200 THEN Revoke("mechanic", mechanic_id)
                        ELSE UNCHANGED revoked
     /\ resp' = Reply("delete_mechanic", NoHeader, "none", mechanic_id, 0, status)
     /\ UNCHANGED <<customers, tickets, inventory, ticketParts, cache, clock, held>>

\* a mechanic obtains a token: encode_mechanic_token(mechanic.id)
MechanicLogin(mechanic_id) ==
  /\ Idle
  /\ Exists(mechanics, mechanic_id)
  /\ Keep(encode_mechanic_token(mechanic_id))
  /\ resp' = Reply("mechanic_login", NoHeader, "none", mechanic_id, 0, 200)
  /\ UNCHANGED <<store, clock>>

\* --------------------------------------------------------------- tickets
\* set(list)
SetOf(seq) == {seq[i] : i \in DOMAIN seq}

\* the attributes the ServiceTicket class defines: its columns and its two
\* relationships; reading any other attribute of a ticket is an AttributeError
ServiceTicketAttrs ==
  {"id", "customer_id", "vehicle_info", "description", "status", "priority",
   "estimated_cost", "actual_cost", "created_at", "updated_at", "completed_at",
   "customer", "mechanics"}

\* the keywords create_service_ticket passes to ServiceTicket(...), which
\* refuses a keyword that is no attribute of the class, and the columns of the
\* table that are NOT NULL without a default
TicketColumnsGiven == {"customer_id", "description", "service_date"}
TicketColumnsRequired == {"customer_id", "vehicle_info", "description"}

\* POST /service-tickets/: the constructor or the INSERT raises, answered 400
CreateServiceTicket(hdr, data) ==
  LET g == AuthTokenRequired(hdr)
      customer_id == g.inject
      id == NextId(tickets)
      status == IF g.code # 0 THEN g.code
                ELSE IF ~data.complete THEN 400
                ELSE IF ~(TicketColumnsGiven \subseteq ServiceTicketAttrs) THEN 400
                ELSE IF ~(TicketColumnsRequired \subseteq TicketColumnsGiven) THEN 400
                ELSE 201
  IN /\ Idle
     /\ status = 201 => id \in TicketIds
     /\ tickets' = IF status = 201
                   THEN [tickets EXCEPT ![id] =
                           [t |-> "row", id |-> id, customer_id |-> ToInt(customer_id)]]
                   ELSE tickets
     /\ ticketMechs' = IF status = 201
                       THEN [ticketMechs EXCEPT ![id] =
                               {m \in SetOf(data.mechanic_ids) : Exists(mechanics, m)}]
                       ELSE ticketMechs
     /\ resp' = [Reply("create_service_ticket", hdr, GuardTag(g),
                       IF status = 201 THEN id ELSE 0, 0, status)
                 EXCEPT !.add = SetOf(data.mechanic_ids)]
     /\ UNCHANGED <<customers, mechanics, inventory, ticketParts, cache, clock,
                    held, revoked>>

\* GET /service-tickets/
GetServiceTickets(hdr) ==
  LET g == MechanicTokenRequired(hdr)
      status == IF g.code # 0 THEN g.code ELSE 200
  IN /\ Idle
     /\ resp' = [Reply("get_service_tickets", hdr, GuardTag(g), 0, 0, status)
                 EXCEPT !.add = IF status = 200 THEN Rows(tickets) ELSE {}]
     /\ UNCHANGED <<store, clock, held, revoked>>

\* PUT /service-tickets/<ticket_id>/assign-mechanic/<mechanic_id>
AssignPathArgs == {"ticket_id", "mechanic_id"}
\* the limiter is the outermost decorator: a request it refuses is answered
\* 429 and reaches neither the guard nor the handler
AssignMechanicToTicket(caller, hdr, ticket_id, mechanic_id) ==
  LET g == MechanicTokenRequired(hdr)
      status == IF ~Admits(caller) THEN 429
                ELSE IF g.code # 0 THEN g.code
                ELSE IF KeywordCollision("mechanic_id", AssignPathArgs) THEN 500
                ELSE IF ~Exists(tickets, ticket_id) THEN 404
                ELSE IF ~Exists(mechanics, mechanic_id) THEN 404
                ELSE IF mechanic_id \in ticketMechs[ticket_id] THEN 400
                ELSE 200
  IN /\ Idle
     /\ ticketMechs' = IF status = 200
                       THEN [ticketMechs EXCEPT ![ticket_id] = @ \cup {mechanic_id}]
                       ELSE ticketMechs
     /\ hits' = IF status = 429 THEN hits ELSE [hits EXCEPT ![caller] = @ + 1]
     /\ UNCHANGED flight
     /\ resp' = [(IF status = 429
                  THEN [Reply("rate_limited", hdr, "none", ticket_id, mechanic_id, 429)
                        EXCEPT !.text = "assign_mechanic"]
                  ELSE Reply("assign_mechanic", hdr, GuardTag(g), ticket_id,
                             mechanic_id, status))
                 EXCEPT !.caller = caller]
     /\ UNCHANGED <<customers, mechanics, tickets, inventory, ticketParts,
                    cache, now, held, revoked>>

\* PUT /service-tickets/<ticket_id>/remove-mechanic/<mechanic_id>
RemoveMechanicFromTicket(hdr, ticket_id, mechanic_id) ==
  LET g == MechanicTokenRequired(hdr)
      status == IF g.code # 0 THEN g.code
                ELSE IF KeywordCollision("mechanic_id", AssignPathArgs) THEN 500
                ELSE IF ~Exists(tickets, ticket_id) THEN 404
                ELSE IF ~Exists(mechanics, mechanic_id) THEN 404
                ELSE IF mechanic_id \notin ticketMechs[ticket_id] THEN 400
                ELSE 200
  IN /\ Idle
     /\ ticketMechs' = IF status = 200
                       THEN [ticketMechs EXCEPT ![ticket_id] = @ \ {mechanic_id}]
                       ELSE ticketMechs
     /\ resp' = Reply("remove_mechanic", hdr, GuardTag(g), ticket_id, mechanic_id, status)
     /\ UNCHANGED <<customers, mechanics, tickets, inventory, ticketParts,
                    cache, clock, held, revoked>>

\* ------------------------------------------------------------- bulk edit
Min(S) == CHOOSE x \in S : \A y \in S : x <= y

Entry(kind, mech_id) == [kind |-> kind, id |-> mech_id]

\* one pass of the removal loop; acc is the ticket's mechanics and both lists
RemoveOne(acc, mech_id, mechanics_map) ==
  IF mech_id \notin mechanics_map
  THEN [acc EXCEPT !.errors = Append(@, Entry("not found for removal", mech_id))]
  ELSE IF mech_id \in acc.mechanics
  THEN [acc EXCEPT !.mechanics = @ \ {mech_id},
                   !.changes = Append(@, Entry("Removed", mech_id))]
  ELSE [acc EXCEPT !.errors = Append(@, Entry("was not assigned", mech_id))]

\* one pass of the addition loop
AddOneSilent(acc, mech_id, mechanics_map) ==
  IF mech_id \notin mechanics_map
  THEN acc
  ELSE IF mech_id \notin acc.mechanics
  THEN [acc EXCEPT !.mechanics = @ \cup {mech_id},
                   !.changes = Append(@, Entry("Added", mech_id))]
  ELSE [acc EXCEPT !.errors = Append(@, Entry("already assigned", mech_id))]
AddOne(acc, mech_id, mechanics_map) ==
  IF mech_id \notin mechanics_map
  THEN [acc EXCEPT !.errors = Append(@, Entry("not found for addition", mech_id))]
  ELSE IF mech_id \notin acc.mechanics
  THEN [acc EXCEPT !.mechanics = @ \cup {mech_id},
                   !.changes = Append(@, Entry("Added", mech_id))]
  ELSE [acc EXCEPT !.errors = Append(@, Entry("already assigned", mech_id))]

\* for mech_id in remove_ids / add_ids: a set of small ints is walked upwards
RECURSIVE ProcessRemovals(_, _, _)
ProcessRemovals(ids, acc, mechanics_map) ==
  IF ids = {} THEN acc
  ELSE ProcessRemovals(ids \ {Min(ids)}, RemoveOne(acc, Min(ids), mechanics_map),
                       mechanics_map)

RECURSIVE ProcessAdditions(_, _, _)
ProcessAdditions(ids, acc, mechanics_map) ==
  IF ids = {} THEN acc
  ELSE ProcessAdditions(ids \ {Min(ids)}, AddOne(acc, Min(ids), mechanics_map),
                        mechanics_map)

\* the two loops of edit_ticket_mechanics, removals first
ProcessEditAddFirst(assigned, add_ids, remove_ids) ==
  LET mechanics_map == {m \in add_ids \cup remove_ids : Exists(mechanics, m)}
      acc0 == [mechanics |-> assigned, changes |-> <<>>, errors |-> <<>>]
  IN ProcessRemovals(remove_ids, ProcessAdditions(add_ids, acc0, mechanics_map),
                     mechanics_map)
ProcessEdit(assigned, add_ids, remove_ids) ==
  LET mechanics_map == {m \in add_ids \cup remove_ids : Exists(mechanics, m)}
      acc0 == [mechanics |-> assigned, changes |-> <<>>, errors |-> <<>>]
  IN ProcessAdditions(add_ids, ProcessRemovals(remove_ids, acc0, mechanics_map),
                      mechanics_map)

\* the status of the bulk edit's answer
EditStatusNo207(changes_made, errors) ==
  IF changes_made # <<>> THEN 200 ELSE 400
EditStatusErrorsFirst(changes_made, errors) ==
  IF errors = <<>> THEN 200
  ELSE IF errors # <<>> THEN 400
  ELSE 207
EditStatus(changes_made, errors) ==
  IF errors = <<>> THEN 200
  ELSE IF changes_made # <<>> THEN 207
  ELSE 400

NoBody == [add_ids |-> <<>>, remove_ids |-> <<>>, json |-> FALSE]
EditBody(add, remove) == [add_ids |-> add, remove_ids |-> remove, json |-> TRUE]

\* PUT /service-tickets/<ticket_id>/edit
EditPathArgs == {"ticket_id"}
EditTicketMechanics(hdr, ticket_id, json_data) ==
  LET g == MechanicTokenRequired(hdr)
      add_ids == SetOf(json_data.add_ids)
      remove_ids == SetOf(json_data.remove_ids)
      early == IF g.code # 0 THEN g.code
               ELSE IF KeywordCollision("mechanic_id", EditPathArgs) THEN 500
               ELSE IF ~Exists(tickets, ticket_id) THEN 404
               ELSE IF ~json_data.json THEN 400
               ELSE IF add_ids = {} /\ remove_ids = {} THEN 400
               ELSE 0
      out == ProcessEdit(ticketMechs[ticket_id], add_ids, remove_ids)
      status == IF early # 0 THEN early ELSE EditStatus(out.changes, out.errors)
  IN /\ Idle
     /\ ticketMechs' = IF early = 0 /\ out.changes # <<>>
                       THEN [ticketMechs EXCEPT ![ticket_id] = out.mechanics]
                       ELSE ticketMechs
     /\ resp' = [Reply("edit", hdr, GuardTag(g), ticket_id, 0, status)
                 EXCEPT !.add = IF early = 0 THEN add_ids ELSE {},
                        !.remove = IF early = 0 THEN remove_ids ELSE {},
                        !.changes = IF early = 0 THEN out.changes ELSE <<>>,
                        !.errors = IF early = 0 THEN out.errors ELSE <<>>,
                        !.text = IF early = 0 THEN "processed" ELSE ""]
     /\ UNCHANGED <<customers, mechanics, tickets, inventory, ticketParts,
                    cache, clock, held, revoked>>

\* POST /service-tickets/<ticket_id>/inventory/<inventory_id>
AttachPathArgs == {"ticket_id", "inventory_id"}
AddInventoryToTicket(hdr, ticket_id, inventory_id) ==
  LET g == MechanicTokenRequired(hdr)
      status == IF g.code # 0 THEN g.code
                ELSE IF KeywordCollision("mechanic_id", AttachPathArgs) THEN 500
                ELSE IF ~Exists(tickets, ticket_id) THEN 404
                ELSE IF ~Exists(inventory, inventory_id) THEN 404
                ELSE IF "inventory_parts" \notin ServiceTicketAttrs THEN 500
                ELSE IF inventory_id \in ticketParts[ticket_id] THEN 400
                ELSE 200
  IN /\ Idle
     /\ ticketParts' = IF status = 200
                       THEN [ticketParts EXCEPT ![ticket_id] = @ \cup {inventory_id}]
                       ELSE ticketParts
     /\ resp' = Reply("add_inventory", hdr, GuardTag(g), ticket_id, inventory_id, status)
     /\ UNCHANGED <<customers, mechanics, tickets, inventory, ticketMechs,
                    cache, clock, held, revoked>>

\* sum(part.price for part in service_ticket.inventory_parts)
RECURSIVE SumPrices(_)
SumPrices(parts) ==
  IF parts = {} THEN 0
  ELSE inventory[Min(parts)].price + SumPrices(parts \ {Min(parts)})

\* GET /service-tickets/<ticket_id>/cost
GetServiceTicketCost(hdr, ticket_id) ==
  LET g == MechanicTokenRequired(hdr)
      status == IF g.code # 0 THEN g.code
                ELSE IF ~Exists(tickets, ticket_id) THEN 404
                ELSE IF "inventory_parts" \notin ServiceTicketAttrs THEN 500
                ELSE 200
  IN /\ Idle
     /\ resp' = [Reply("get_cost", hdr, GuardTag(g), ticket_id,
                       IF status = 200 THEN SumPrices(ticketParts[ticket_id]) ELSE 0,
                       status)
                 EXCEPT !.add = IF status = 200 THEN ticketParts[ticket_id] ELSE {}]
     /\ UNCHANGED <<store, clock, held, revoked>>

\* ------------------------------------------------------------- inventory
InventoryRow(id, item) == [t |-> "row", id |-> id, name |-> item.name, price |-> item.price]

\* Inventory.query.filter(Inventory.name.ilike(name))
InventoryILike(name) == {i \in Rows(inventory) : Lower(inventory[i].name) = Lower(name)}

\* inventory_schema.load: name and price are required on create
ItemComplete(item) == {"name", "price"} \subseteq item.fields

\* POST /inventory/
CreateInventoryItem(hdr, json_data) ==
  LET g == MechanicTokenRequired(hdr)
      id == NextId(inventory)
      status == IF g.code # 0 THEN g.code
                ELSE IF json_data.fields = {} THEN 400
                ELSE IF ~ItemComplete(json_data) THEN 400
                ELSE IF InventoryILike(json_data.name) # {} THEN 409
                ELSE 201
  IN /\ Idle
     /\ status = 201 => id \in InvIds
     /\ inventory' = IF status = 201
                     THEN [inventory EXCEPT ![id] = InventoryRow(id, json_data)]
                     ELSE inventory
     /\ cache' = IF status = 201 THEN NoCache ELSE cache
     /\ resp' = [Reply("create_inventory", hdr, GuardTag(g),
                       IF status = 201 THEN id ELSE 0, 0, status)
                 EXCEPT !.text = IF g.code = 0 THEN json_data.name ELSE "",
                        !.dropped = status = 201 /\ cache # NoCache]
     /\ UNCHANGED <<customers, mechanics, tickets, ticketMechs, ticketParts,
                    clock, held, revoked>>

\* POST /inventory/bulk: every name is looked up in the table before any of
\* the new items is added to the session
BulkCreateInventoryItemsEager(hdr, json_data) ==
  LET g == MechanicTokenRequired(hdr)
      first == NextId(inventory)
      n == Len(json_data)
      status == IF g.code # 0 THEN g.code
                ELSE IF \E k \in 1..n : ~ItemComplete(json_data[k]) THEN 400
                ELSE IF \E k \in 1..n : InventoryILike(json_data[k].name) # {} THEN 409
                ELSE 201
      stored == IF status = 201 THEN n
                ELSE IF status = 409
                THEN Min({k \in 1..n : InventoryILike(json_data[k].name) # {}}) - 1
                ELSE 0
  IN /\ Idle
     /\ stored > 0 => first + stored - 1 \in InvIds
     /\ inventory' = [i \in InvIds |->
                        IF i \in first..(first + stored - 1)
                        THEN InventoryRow(i, json_data[i - first + 1])
                        ELSE inventory[i]]
     /\ cache' = IF status = 201 THEN NoCache ELSE cache
     /\ resp' = [Reply("bulk_create_inventory", hdr, GuardTag(g),
                       IF status = 201 THEN first ELSE 0,
                       IF g.code = 0 THEN n ELSE 0, status)
                 EXCEPT !.text = IF g.code = 0 /\ n > 0 THEN json_data[1].name ELSE "",
                        !.dropped = status = 201 /\ cache # NoCache]
     /\ UNCHANGED <<customers, mechanics, tickets, ticketMechs, ticketParts,
                    clock, held, revoked>>

BulkCreateInventoryItems(hdr, json_data) ==
  LET g == MechanicTokenRequired(hdr)
      first == NextId(inventory)
      n == Len(json_data)
      status == IF g.code # 0 THEN g.code
                ELSE IF \E k \in 1..n : ~ItemComplete(json_data[k]) THEN 400
                ELSE IF \E k \in 1..n : InventoryILike(json_data[k].name) # {} THEN 409
                ELSE 201
  IN /\ Idle
     /\ status = 201 => first + n - 1 \in InvIds \cup {first - 1}
     /\ inventory' = IF status = 201
                     THEN [i \in InvIds |->
                             IF i \in first..(first + n - 1)
                             THEN InventoryRow(i, json_data[i - first + 1])
                             ELSE inventory[i]]
                     ELSE inventory
     /\ cache' = IF status = 201 THEN NoCache ELSE cache
     /\ resp' = [Reply("bulk_create_inventory", hdr, GuardTag(g),
                       IF status = 201 THEN first ELSE 0,
                       IF g.code = 0 THEN n ELSE 0, status)
                 EXCEPT !.text = IF g.code = 0 /\ n > 0 THEN json_data[1].name ELSE "",
                        !.dropped = status = 201 /\ cache # NoCache]
     /\ UNCHANGED <<customers, mechanics, tickets, ticketMechs, ticketParts,
                    clock, held, revoked>>

\* PUT /inventory/<item_id>
UpdateInventoryItem(hdr, item_id, json_data) ==
  LET g == MechanicTokenRequired(hdr)
      item == inventory[item_id]
      status == IF g.code # 0 THEN g.code
                ELSE IF ~Exists(inventory, item_id) THEN 404
                ELSE IF json_data.fields = {} THEN 400
                ELSE IF /\ "name" \in json_data.fields
                        /\ json_data.name # item.name
                        /\ InventoryILike(json_data.name) # {} THEN 409
                ELSE 200
  IN /\ Idle
     /\ inventory' =
          IF status = 200
          THEN [inventory EXCEPT ![item_id] =
                  [item EXCEPT
                     !.name = IF "name" \in json_data.fields THEN json_data.name ELSE @,
                     !.price = IF "price" \in json_data.fields THEN json_data.price ELSE @]]
          ELSE inventory
     /\ cache' = IF status = 200 THEN NoCache ELSE cache
     /\ resp' = [Reply("update_inventory", hdr, GuardTag(g), item_id, 0, status)
                 EXCEPT !.text = IF g.code = 0 THEN json_data.name ELSE "",
                        !.dropped = status = 200 /\ cache # NoCache]
     /\ UNCHANGED <<customers, mechanics, tickets, ticketMechs, ticketParts,
                    clock, held, revoked>>

\* DELETE /inventory/<item_id>: the ORM deletes the item's rows of the
\* secondary table together with the item
DeleteInventoryItemKeepCache(hdr, item_id) ==
  LET g == MechanicTokenRequired(hdr)
      status == IF g.code # 0 THEN g.code
                ELSE IF ~Exists(inventory, item_id) THEN 404
                ELSE 200
  IN /\ Idle
     /\ inventory' = IF status = 200
                     THEN [inventory EXCEPT ![item_id] = NoRow]
                     ELSE inventory
     /\ ticketParts' = IF status = 200
                       THEN [t \in TicketIds |-> ticketParts[t] \ {item_id}]
                       ELSE ticketParts
     /\ cache' = cache
     /\ resp' = [Reply("delete_inventory", hdr, GuardTag(g), item_id, 0, status)
                 EXCEPT !.dropped = status = 200 /\ cache # NoCache]
     /\ UNCHANGED <<customers, mechanics, tickets, ticketMechs, clock, held, revoked>>
DeleteInventoryItemBeforeGuard(hdr, item_id) ==
  LET g == MechanicTokenRequired(hdr)
      found == Exists(inventory, item_id)
      status == IF g.code # 0 THEN g.code
                ELSE IF ~found THEN 404
                ELSE 200
  IN /\ Idle
     /\ inventory' = IF found
                     THEN [inventory EXCEPT ![item_id] = NoRow]
                     ELSE inventory
     /\ ticketParts' = IF found
                       THEN [t \in TicketIds |-> ticketParts[t] \ {item_id}]
                       ELSE ticketParts
     /\ cache' = IF found THEN NoCache ELSE cache
     /\ resp' = [Reply("delete_inventory", hdr, GuardTag(g), item_id, 0, status)
                 EXCEPT !.dropped = found /\ cache # NoCache]
     /\ UNCHANGED <<customers, mechanics, tickets, ticketMechs, clock, held, revoked>>
DeleteInventoryItem(hdr, item_id) ==
  LET g == MechanicTokenRequired(hdr)
      status == IF g.code # 0 THEN g.code
                ELSE IF ~Exists(inventory, item_id) THEN 404
                ELSE 200
  IN /\ Idle
     /\ inventory' = IF status = 200
                     THEN [inventory EXCEPT ![item_id] = NoRow]
                     ELSE inventory
     /\ ticketParts' = IF status = 200
                       THEN [t \in TicketIds |-> ticketParts[t] \ {item_id}]
                       ELSE ticketParts
     /\ cache' = IF status = 200 THEN NoCache ELSE cache
     /\ resp' = [Reply("delete_inventory", hdr, GuardTag(g), item_id, 0, status)
                 EXCEPT !.dropped = status = 200 /\ cache # NoCache]
     /\ UNCHANGED <<customers, mechanics, tickets, ticketMechs, clock, held, revoked>>

\* name.ilike("%needle%") on the strings the model uses
Contains(hay, needle) ==
  \/ Lower(needle) = Lower(hay)
  \/ <<Lower(needle), Lower(hay)>> \in {<<"olt", "bolt">>}

\* the three filters of the listing: `if value := request.args.get(...)` skips
\* a parameter that is absent and one whose value is falsy ("" or 0)
Filtered(q) ==
  {i \in Rows(inventory) :
     /\ ("name" \in q.fields /\ q.name # "") => Contains(inventory[i].name, q.name)
     /\ ("min_price" \in q.fields /\ q.min_price # 0) =>
          inventory[i].price >= q.min_price
     /\ ("max_price" \in q.fields /\ q.max_price # 0) =>
          inventory[i].price <= q.max_price}

\* the body of the listing computed from the table
Listing(q) == {inventory[i] : i \in Filtered(q)}

\* GET /inventory/ behind cache.cached(key_prefix="all_inventory"): one entry
\* under one key, whatever the query string
GetInventoryItems(q) ==
  LET hit == cache # NoCache
      body == IF hit THEN cache.items ELSE Listing(q)
  IN /\ Idle
     /\ cache' = IF hit THEN cache ELSE [none |-> FALSE, q |-> q, items |-> body]
     /\ resp' = [Reply("get_inventory", NoHeader, "none", 0, 0, 200)
                 EXCEPT !.q = q, !.items = body,
                        !.text = IF hit THEN "cached" ELSE "computed"]
     /\ UNCHANGED <<customers, mechanics, tickets, inventory, ticketMechs,
                    ticketParts, clock, held, revoked>>

\* per_page = min(per_page, 100)
CappedPerPageNoCap(per_page) == per_page
CappedPerPage(per_page) == IF per_page < PerPageCap THEN per_page ELSE PerPageCap

\* query.paginate(page=, per_page=, error_out=False) on a query of `total`
\* rows: a page below 1 becomes 1, a per_page below 1 becomes 20, and the
\* page holds the rows from (page - 1) * per_page on, at most per_page of them
Paginate(total, page, per_page) ==
  LET p == IF page < 1 THEN 1 ELSE page
      pp == IF per_page < 1 THEN 20 ELSE per_page
      left == total - (p - 1) * pp
  IN [page |-> p, per_page |-> pp,
      count |-> IF left < 0 THEN 0 ELSE IF left < pp THEN left ELSE pp]

\* GET /inventory/?page=&per_page= computed on a table whose filters leave
\* `total` rows; args.fields names the parameters that were sent
GetInventoryPage(total, args) ==
  LET page == IF "page" \in args.fields THEN args.page ELSE 1
      asked == IF "per_page" \in args.fields THEN args.per_page ELSE DefaultPerPage
      paginated_items == Paginate(total, page, CappedPerPage(asked))
  IN /\ Idle
     /\ cache = NoCache
     /\ resp' = [Reply("get_inventory_page", NoHeader, "none", 0, 0, 200)
                 EXCEPT !.pg = [total |-> total, asked |-> asked,
                                page |-> paginated_items.page,
                                per_page |-> paginated_items.per_page,
                                count |-> paginated_items.count]]
     /\ UNCHANGED <<store, clock, held, revoked>>

\* ----------------------------------------------------------------- clock
\* a step of the clock is longer than the cache timeout of 600 seconds
Tick ==
  /\ Idle
  /\ now + TickHours <= MaxTicks * TickHours
  /\ now' = now + TickHours
  /\ cache' = NoCache
  /\ hits' = [c \in Callers |-> 0]
  /\ UNCHANGED <<customers, mechanics, tickets, inventory, ticketMechs,
                 ticketParts, held, revoked, resp, flight>>

\* a minute has passed: the limiter starts a new window; the clock, which
\* counts hours, shows the same hour
NextWindow ==
  /\ Idle
  /\ hits' = [c \in Callers |-> 0]
  /\ UNCHANGED <<store, now, held, revoked, resp, flight>>

\* the client has read the answer; the next request can be sent
Receive ==
  /\ ~Idle
  /\ resp' = R0
  /\ UNCHANGED <<store, clock, held, revoked>>

\* ----------------------------------------------------- requests in flight
\* Two requests served at the same time, each by a worker with a session of
\* its own. A bulk edit reads (the ticket, the mechanics, the ticket's
\* mechanics) and records its changes in its session; its commit writes them
\* as rows of the association table: a DELETE for every mechanic it removed,
\* then an INSERT for every mechanic it appended.

\* the ids of the entries of the given kind in a list of changes
Changed(changes, kind) ==
  {changes[k].id : k \in {j \in DOMAIN changes : changes[j].kind = kind}}

\* the composite primary key of the association table refuses a second row
\* for a pair
InsertRefusedNever(rows, pair) == FALSE
InsertRefused(rows, pair) == rows[pair] > 0

\* the ticket's mechanics after the commit of a session that inserts the
\* rows `ins` and deletes the rows `del`
FlushWholeSet(assigned, out, ins, del) == out
Flush(assigned, out, ins, del) == (assigned \ del) \cup ins

\* edit_ticket_mechanics up to the end of its two loops
EditRead(w, hdr, ticket_id, json_data) ==
  LET g == MechanicTokenRequired(hdr)
      add_ids == SetOf(json_data.add_ids)
      remove_ids == SetOf(json_data.remove_ids)
      early == IF g.code # 0 THEN g.code
               ELSE IF KeywordCollision("mechanic_id", EditPathArgs) THEN 500
               ELSE IF ~Exists(tickets, ticket_id) THEN 404
               ELSE IF ~json_data.json THEN 400
               ELSE IF add_ids = {} /\ remove_ids = {} THEN 400
               ELSE 0
      assigned == ticketMechs[ticket_id]
      out == ProcessEdit(assigned, add_ids, remove_ids)
  IN /\ Idle
     /\ flight.req[w].pc = "idle"
     /\ flight' =
          [flight EXCEPT !.req[w] =
             IF early # 0
             THEN [NoFlight EXCEPT !.pc = "done", !.op = "edit",
                                   !.status = early, !.a = ticket_id]
             ELSE [NoFlight EXCEPT !.pc = "read", !.op = "edit", !.a = ticket_id,
                                   !.add = add_ids, !.remove = remove_ids,
                                   !.out = out.mechanics,
                                   !.ins = Changed(out.changes, "Added"),
                                   !.del = Changed(out.changes, "Removed"),
                                   !.changes = out.changes,
                                   !.errors = out.errors,
                                   !.during = {v \in Workers :
                                                 flight.req[v].pc = "read"}]]
     /\ UNCHANGED <<store, now, hits, held, revoked, resp>>

\* `if changes_made: db.session.commit()` and the answer; a refused insert
\* (IntegrityError) or a row to delete that is gone (StaleDataError) is caught
\* by `except Exception`: rollback and 500
EditCommit(w) ==
  LET r == flight.req[w]
      t == r.a
      deleted == [p \in DOMAIN flight.rows |->
                    IF p[1] = t /\ p[2] \in r.del /\ flight.rows[p] > 0
                    THEN flight.rows[p] - 1 ELSE flight.rows[p]]
      refused == \/ \E m \in r.del : flight.rows[<<t, m>>] = 0
                 \/ \E m \in r.ins : InsertRefused(deleted, <<t, m>>)
      written == r.changes # <<>> /\ ~refused
      status == IF r.changes # <<>> /\ refused THEN 500
                ELSE EditStatus(r.changes, r.errors)
  IN /\ Idle
     /\ r.pc = "read"
     /\ ticketMechs' =
          IF written
          THEN [ticketMechs EXCEPT ![t] = Flush(@, r.out, r.ins, r.del)]
          ELSE ticketMechs
     /\ flight' =
          [flight EXCEPT
             !.req[w] = [r EXCEPT !.pc = "done", !.status = status,
                                  !.changes = IF status = 500 THEN <<>> ELSE @,
                                  !.errors = IF status = 500 THEN <<>> ELSE @],
             !.rows = IF written
                      THEN [p \in DOMAIN flight.rows |->
                              IF p[1] = t /\ p[2] \in r.ins THEN deleted[p] + 1
                              ELSE deleted[p]]
                      ELSE @]
     /\ UNCHANGED <<customers, mechanics, tickets, inventory, ticketParts, cache,
                    now, hits, held, revoked, resp>>

\* @cache.cached on get_inventory_items: the look-up of the key and, on a
\* miss, the call of the view, which reads the table
ListCompute(w, q) ==
  LET hit == cache # NoCache
  IN /\ Idle
     /\ flight.req[w].pc = "idle"
     /\ flight' =
          [flight EXCEPT !.req[w] =
             [NoFlight EXCEPT !.pc = IF hit THEN "done" ELSE "computed",
                              !.op = "get_inventory", !.status = 200, !.q = q,
                              !.items = IF hit THEN cache.items ELSE Listing(q)]]
     /\ UNCHANGED <<store, now, hits, held, revoked, resp>>

\* @cache.cached after the view has returned: cache.set(key, rv, timeout)
ListStore(w) ==
  LET r == flight.req[w]
  IN /\ Idle
     /\ r.pc = "computed"
     /\ cache' = [none |-> FALSE, q |-> r.q, items |-> r.items]
     /\ flight' = [flight EXCEPT !.req[w].pc = "done"]
     /\ UNCHANGED <<customers, mechanics, tickets, inventory, ticketMechs,
                    ticketParts, now, hits, held, revoked, resp>>

\* the client of a worker has read the answer
Collect(w) ==
  /\ Idle
  /\ flight.req[w].pc = "done"
  /\ flight' = [flight EXCEPT
                  !.req = [v \in Workers |->
                             IF v = w THEN NoFlight
                             ELSE [flight.req[v] EXCEPT !.during = @ \ {w}]]]
  /\ UNCHANGED <<store, now, hits, held, revoked, resp>>

\* ---------------------------------------------------------------- inputs
NewCustomer(email) ==
  [email |-> email, password |-> "p", first_name |-> "Ann", complete |-> TRUE]
NewMechanic(email) == [email |-> email, complete |-> TRUE]
NewTicket(mechanic_ids) == [complete |-> TRUE, mechanic_ids |-> mechanic_ids]
Item(name, price) == [fields |-> {"name", "price"}, name |-> name, price |-> price]

\* lists of mechanic ids, one of them with a repeated id
IdLists == {<<>>, <<1>>, <<2>>, <<1, 2>>, <<2, 2>>}
EditInputs == {NoBody} \cup {EditBody(a, r) : a \in IdLists, r \in IdLists}

\* the headers of a well behaved client, with those of a forger, and every
\* header shape
HeadersBearer == {NoHeader} \cup {Bearer(t) : t \in held}
HeadersForged == {NoHeader} \cup {Bearer(t) : t \in Tokens}
HeadersAll == Headers

\* ------------------------------------------ the bulk editor at work
Next ==
  \/ CreateCustomer(NewCustomer("a@x.com"))
  \/ Login([email |-> "a@x.com", password |-> "p"])
  \/ \E e \in {"m@x.com", "n@x.com"} : CreateMechanic(NewMechanic(e))
  \/ \E m \in MechIds : DeleteMechanic(m)
  \/ \E m \in MechIds : MechanicLogin(m)
  \/ \E h \in HeadersBearer, l \in {<<>>, <<1>>} : CreateServiceTicket(h, NewTicket(l))
  \/ \E h \in HeadersBearer, t \in TicketIds \cup {MaxTicket + 1}, d \in EditInputs :
       EditTicketMechanics(h, t, d)
  \/ Receive

Spec == InitSeeded /\ [][Next]_vars

\* ------------------------------- single assignments and attachments at work
NextAssign ==
  \/ CreateCustomer(NewCustomer("a@x.com"))
  \/ Login([email |-> "a@x.com", password |-> "p"])
  \/ \E e \in {"m@x.com", "n@x.com"} : CreateMechanic(NewMechanic(e))
  \/ \E m \in MechIds : MechanicLogin(m)
  \/ \E h \in HeadersBearer : CreateServiceTicket(h, NewTicket(<<>>))
  \/ \E h \in HeadersBearer, t \in TicketIds, m \in MechIds :
       AssignMechanicToTicket("10.0.0.1", h, t, m)
  \/ \E h \in HeadersBearer, t \in TicketIds, m \in MechIds :
       RemoveMechanicFromTicket(h, t, m)
  \/ \E h \in HeadersBearer : CreateInventoryItem(h, Item("bolt", 10))
  \/ \E h \in HeadersBearer, t \in TicketIds, i \in InvIds :
       AddInventoryToTicket(h, t, i)
  \/ Receive

SpecAssign == InitSeeded /\ [][NextAssign]_vars

\* ------------------------------------------------- the guards at work
\* one customer and one mechanic, each with tokens of several ages, on every
\* protected route
NextAuth ==
  \/ CreateCustomer(NewCustomer("a@x.com"))
  \/ Login([email |-> "a@x.com", password |-> "p"])
  \/ CreateMechanic(NewMechanic("m@x.com"))
  \/ \E m \in MechIds : DeleteMechanic(m)
  \/ \E m \in MechIds : MechanicLogin(m)
  \/ Tick
  \/ \E h \in HeadersForged :
       UpdateCustomer(h, 1, [email |-> Absent, first_name |-> "Bob"])
  \/ \E h \in HeadersForged : DeleteCustomer(h, 1)
  \/ \E h \in HeadersForged : GetMyTickets(h)
  \/ \E h \in HeadersForged : CreateServiceTicket(h, NewTicket(<<>>))
  \/ \E h \in HeadersForged : GetServiceTickets(h)
  \/ \E h \in HeadersForged : AssignMechanicToTicket("10.0.0.1", h, 1, 1)
  \/ \E h \in HeadersForged : RemoveMechanicFromTicket(h, 1, 1)
  \/ \E h \in HeadersForged : EditTicketMechanics(h, 1, EditBody(<<>>, <<1>>))
  \/ \E h \in HeadersForged : AddInventoryToTicket(h, 1, 1)
  \/ \E h \in HeadersForged : GetServiceTicketCost(h, 1)
  \/ \E h \in HeadersForged : CreateInventoryItem(h, Item("bolt", 10))
  \/ \E h \in HeadersForged : BulkCreateInventoryItems(h, <<Item("bolt", 10)>>)
  \/ \E h \in HeadersForged : UpdateInventoryItem(h, 1, Item("bolt", 10))
  \/ \E h \in HeadersForged : DeleteInventoryItem(h, 1)
  \/ Receive

SpecAuth == InitSeeded /\ [][NextAuth]_vars

\* ------------------------------------ every header shape, two customer ids
NextShape ==
  \/ \E e \in CustEmails : CreateCustomer(NewCustomer(e))
  \/ \E e \in CustEmails : Login([email |-> e, password |-> "p"])
  \/ CreateMechanic(NewMechanic("m@x.com"))
  \/ \E m \in MechIds : DeleteMechanic(m)
  \/ \E m \in MechIds : MechanicLogin(m)
  \/ Tick
  \/ \E h \in HeadersAll, c \in CustIds :
       UpdateCustomer(h, c, [email |-> Absent, first_name |-> "Bob"])
  \/ \E h \in HeadersAll, c \in CustIds : DeleteCustomer(h, c)
  \/ \E h \in HeadersAll : GetMyTickets(h)
  \/ \E h \in HeadersAll : CreateServiceTicket(h, NewTicket(<<>>))
  \/ \E h \in HeadersAll : GetServiceTickets(h)
  \/ \E h \in HeadersAll : AssignMechanicToTicket("10.0.0.1", h, 1, 1)
  \/ \E h \in HeadersAll : RemoveMechanicFromTicket(h, 1, 1)
  \/ \E h \in HeadersAll : EditTicketMechanics(h, 1, EditBody(<<>>, <<1>>))
  \/ \E h \in HeadersAll : AddInventoryToTicket(h, 1, 1)
  \/ \E h \in HeadersAll : GetServiceTicketCost(h, 1)
  \/ \E h \in HeadersAll : CreateInventoryItem(h, Item("bolt", 10))
  \/ \E h \in HeadersAll : BulkCreateInventoryItems(h, <<Item("Bolt", 0)>>)
  \/ \E h \in HeadersAll : UpdateInventoryItem(h, 1, Item("bolt", 0))
  \/ \E h \in HeadersAll : DeleteInventoryItem(h, 1)
  \/ Receive

SpecShape == InitSeeded /\ [][NextShape]_vars

\* ------------------------------------------- tickets and their owners
NextOwner ==
  \/ \E e \in CustEmails : CreateCustomer(NewCustomer(e))
  \/ \E e \in CustEmails : Login([email |-> e, password |-> "p"])
  \/ \E e \in MechEmails : CreateMechanic(NewMechanic(e))
  \/ \E m \in MechIds : MechanicLogin(m)
  \/ \E h \in HeadersBearer, l \in {<<>>, <<1>>} : CreateServiceTicket(h, NewTicket(l))
  \/ \E h \in HeadersBearer, c \in CustIds : DeleteCustomer(h, c)
  \/ \E h \in HeadersBearer : GetMyTickets(h)
  \/ Receive

SpecOwner == InitSeeded /\ [][NextOwner]_vars

\* ------------------------------------- every mutating request, refused
NextAtomic ==
  \/ \E e \in CustEmails \cup {"bad"} : CreateCustomer(NewCustomer(e))
  \/ Login([email |-> "a@x.com", password |-> "p"])
  \/ \E h \in HeadersBearer, c \in CustIds, e \in CustEmails :
       UpdateCustomer(h, c, [email |-> e, first_name |-> "Bob"])
  \/ \E h \in HeadersBearer, c \in CustIds : DeleteCustomer(h, c)
  \/ \E e \in {"m@x.com", "M@x.com"} : CreateMechanic(NewMechanic(e))
  \/ \E m \in MechIds : UpdateMechanic(m, NewMechanic("M@x.com"))
  \/ \E m \in MechIds : DeleteMechanic(m)
  \/ MechanicLogin(1)
  \/ \E h \in HeadersBearer : CreateServiceTicket(h, NewTicket(<<1>>))
  \/ \E h \in HeadersBearer : AssignMechanicToTicket("10.0.0.1", h, 1, 1)
  \/ \E h \in HeadersBearer : RemoveMechanicFromTicket(h, 1, 1)
  \/ \E h \in HeadersBearer, a \in {<<>>, <<1, 2>>}, r \in {<<>>, <<2>>} :
       EditTicketMechanics(h, 1, EditBody(a, r))
  \/ \E h \in HeadersBearer : AddInventoryToTicket(h, 1, 1)
  \/ \E h \in HeadersBearer : CreateInventoryItem(h, Item("bolt", 10))
  \/ \E h \in HeadersBearer :
       BulkCreateInventoryItems(h, <<Item("nut", 10), Item("Bolt", 0)>>)
  \/ \E h \in HeadersBearer, i \in InvIds : UpdateInventoryItem(h, i, Item("nut", 10))
  \/ \E h \in HeadersBearer, i \in InvIds : DeleteInventoryItem(h, i)
  \/ Receive

SpecAtomic == InitSeeded /\ [][NextAtomic]_vars

\* ------------------------------------------- two callers and the limiter
NextLimit ==
  \/ CreateMechanic(NewMechanic("m@x.com"))
  \/ MechanicLogin(1)
  \/ \E c \in Callers, h \in HeadersForged : AssignMechanicToTicket(c, h, 1, 1)
  \/ NextWindow
  \/ Receive

SpecLimit == InitSeeded /\ [][NextLimit]_vars

\* --------------------------------------- two bulk edits at the same time
RaceLists == {<<>>, <<1>>, <<2>>}

NextRace ==
  \/ \E e \in {"m@x.com", "n@x.com"} : CreateMechanic(NewMechanic(e))
  \/ MechanicLogin(1)
  \/ \E w \in Workers, h \in HeadersBearer, a \in RaceLists, r \in RaceLists :
       EditRead(w, h, 1, EditBody(a, r))
  \/ \E w \in Workers : EditCommit(w)
  \/ \E w \in Workers : Collect(w)
  \/ Receive

SpecRace == InitSeeded /\ [][NextRace]_vars

\* ----------------------------- a listing while the inventory is changed
StaleQueries ==
  {NoQuery, [fields |-> {"name"}, name |-> "OLT", min_price |-> 0, max_price |-> 0]}

NextStale ==
  \/ CreateMechanic(NewMechanic("m@x.com"))
  \/ MechanicLogin(1)
  \/ \E h \in HeadersBearer, n \in {"bolt", "nut"} : CreateInventoryItem(h, Item(n, 10))
  \/ \E h \in HeadersBearer, i \in InvIds : UpdateInventoryItem(h, i, Item("nut", 0))
  \/ \E h \in HeadersBearer, i \in InvIds : DeleteInventoryItem(h, i)
  \/ \E w \in Workers, q \in StaleQueries : ListCompute(w, q)
  \/ \E w \in Workers : ListStore(w)
  \/ \E w \in Workers : Collect(w)
  \/ Receive

SpecStale == Init /\ [][NextStale]_vars

\* ------------------------------------------- pages of a long listing
PerPages == {-1, 0, 1, 99, 100, 101, 500}

PageArgs ==
  {[fields |-> {}, page |-> 0, per_page |-> 0]}
  \cup {[fields |-> {"per_page"}, page |-> 0, per_page |-> n] : n \in PerPages}
  \cup {[fields |-> {"page", "per_page"}, page |-> p, per_page |-> n] :
          p \in 0..2, n \in PerPages}

NextPage ==
  \/ \E total \in 0..MaxRows, args \in PageArgs : GetInventoryPage(total, args)
  \/ Receive

SpecPage == Init /\ [][NextPage]_vars

\* ------------------------------------------- customer accounts at work
NextCust ==
  \/ \E e \in CustEmails \cup {"bad"} : CreateCustomer(NewCustomer(e))
  \/ \E e \in CustEmails, p \in Passwords : Login([email |-> e, password |-> p])
  \/ \E h \in HeadersBearer, c \in CustIds, e \in CustEmails :
       UpdateCustomer(h, c, [email |-> e, first_name |-> "Bob"])
  \/ \E h \in HeadersBearer, c \in CustIds : DeleteCustomer(h, c)
  \/ \E c \in CustIds : GetCustomer(c)
  \/ GetAllCustomers
  \/ Tick
  \/ Receive

SpecCust == InitSeeded /\ [][NextCust]_vars

\* ------------------------------------------- mechanic accounts at work
NextMech ==
  \/ \E e \in MechEmails : CreateMechanic(NewMechanic(e))
  \/ \E m \in MechIds, e \in MechEmails : UpdateMechanic(m, NewMechanic(e))
  \/ \E m \in MechIds : DeleteMechanic(m)
  \/ \E m \in MechIds : MechanicLogin(m)
  \/ Receive

SpecMech == Init /\ [][NextMech]_vars

\* ------------------------------------------------- the inventory at work
Query(fields, name, min_price, max_price) ==
  [fields |-> fields, name |-> name, min_price |-> min_price, max_price |-> max_price]

Queries ==
  {NoQuery,
   Query({"name"}, "OLT", 0, 0),
   Query({"max_price"}, "", 0, 0),
   Query({"min_price"}, "", 10, 0),
   Query({"name", "max_price"}, "bolt", 0, 10)}

NextInv ==
  \/ CreateMechanic(NewMechanic("m@x.com"))
  \/ MechanicLogin(1)
  \/ \E h \in HeadersBearer, p \in {0, 10} : CreateInventoryItem(h, Item("bolt", p))
  \/ \E h \in HeadersBearer :
       BulkCreateInventoryItems(h, <<Item("bolt", 10), Item("Bolt", 0)>>)
  \/ \E h \in HeadersBearer, i \in InvIds, n \in {"bolt", "Bolt"} :
       UpdateInventoryItem(h, i, Item(n, 0))
  \/ \E h \in HeadersBearer, i \in InvIds : DeleteInventoryItem(h, i)
  \/ \E q \in Queries : GetInventoryItems(q)
  \/ Receive

SpecInv == Init /\ [][NextInv]_vars

\* ------------------------------------------- parts and their cost at work
NextCost ==
  \/ CreateCustomer(NewCustomer("a@x.com"))
  \/ Login([email |-> "a@x.com", password |-> "p"])
  \/ CreateMechanic(NewMechanic("m@x.com"))
  \/ MechanicLogin(1)
  \/ \E h \in HeadersBearer : CreateServiceTicket(h, NewTicket(<<>>))
  \/ \E h \in HeadersBearer, n \in {"bolt", "nut"} : CreateInventoryItem(h, Item(n, 10))
  \/ \E h \in HeadersBearer, i \in InvIds :
       UpdateInventoryItem(h, i, [fields |-> {"price"}, name |-> Absent, price |-> 0])
  \/ \E h \in HeadersBearer, i \in InvIds : DeleteInventoryItem(h, i)
  \/ \E h \in HeadersBearer, t \in TicketIds, i \in InvIds :
       AddInventoryToTicket(h, t, i)
  \/ \E h \in HeadersBearer, t \in TicketIds : GetServiceTicketCost(h, t)
  \/ Receive

SpecCost == InitSeeded /\ [][NextCost]_vars

TypeOK ==
  /\ now \in 0..(MaxTicks * TickHours)
  /\ Cardinality(held) <= MaxHeld
  /\ revoked \subseteq held
  /\ \A c \in Callers : hits[c] \in 0..AssignLimit

\* ================================================================ claims
\* the answer of a bulk edit that reached the two loops: an existing ticket
\* and at least one id in add_ids or remove_ids
EditProcessed(r) == r.op = "edit" /\ r.text = "processed"

\* C1: a processed bulk edit answers 200 exactly when it made a change and
\* recorded no error, 207 exactly when it made a change and recorded an
\* error, 400 exactly when it made no change and recorded an error; no
\* other case exists, so a 200 never reports zero changes.
C1_EditStatusPolicy ==
  EditProcessed(resp) =>
    /\ resp.status \in {200, 207, 400}
    /\ (resp.status = 200) <=> (resp.changes # <<>> /\ resp.errors = <<>>)
    /\ (resp.status = 207) <=> (resp.changes # <<>> /\ resp.errors # <<>>)
    /\ (resp.status = 400) <=> (resp.changes = <<>> /\ resp.errors # <<>>)

C1_Witness ==
  /\ EditProcessed(resp)
  /\ resp.status = 207
  /\ Len(resp.changes) = 1
  /\ Len(resp.errors) = 1

\* C2: after a bulk edit answered 200 or 207 the ticket's mechanics are the
\* previous ones without remove_ids, together with the ids of add_ids that
\* name existing mechanics; an id in both lists ends up assigned.
C2_RemovalsThenAdditions ==
  [][(resp'.op = "edit" /\ resp'.status \in {200, 207}) =>
       ticketMechs'[resp'.a] =
         (ticketMechs[resp'.a] \ resp'.remove)
           \cup {m \in resp'.add : Exists(mechanics, m)}]_vars

C2_Witness ==
  /\ resp.op = "edit"
  /\ resp.status \in {200, 207}
  /\ \E m \in resp.add \cap resp.remove :
       /\ m \in ticketMechs[resp.a]
       /\ \E k \in DOMAIN resp.changes : resp.changes[k] = Entry("Removed", m)

RemovalKinds == {"not found for removal", "Removed", "was not assigned"}
AdditionKinds == {"not found for addition", "Added", "already assigned"}
ErrorKinds == {"not found for removal", "was not assigned",
               "not found for addition", "already assigned"}

\* the entries about mech_id, of the given kinds, in both lists of an answer
EntriesFor(r, mech_id, kinds) ==
  Cardinality({k \in DOMAIN r.changes :
                 r.changes[k].id = mech_id /\ r.changes[k].kind \in kinds})
  + Cardinality({k \in DOMAIN r.errors :
                   r.errors[k].id = mech_id /\ r.errors[k].kind \in kinds})

\* C3: a per-id problem of a bulk edit never aborts the request; an unknown
\* id, an id to add that is assigned and an id to remove that is not
\* assigned each leave one error string, and every id of remove_ids and of
\* add_ids has exactly one entry in changes_made or errors.
C3_OneEntryPerId ==
  EditProcessed(resp) =>
    /\ resp.status # 500
    /\ \A m \in resp.remove : EntriesFor(resp, m, RemovalKinds) = 1
    /\ \A m \in resp.add : EntriesFor(resp, m, AdditionKinds) = 1
    /\ Len(resp.changes) + Len(resp.errors)
         = Cardinality(resp.remove) + Cardinality(resp.add)
    /\ \A m \in resp.remove : ~Exists(mechanics, m) =>
         \E k \in DOMAIN resp.errors :
           resp.errors[k] = Entry("not found for removal", m)
    /\ \A m \in resp.add : ~Exists(mechanics, m) =>
         \E k \in DOMAIN resp.errors :
           resp.errors[k] = Entry("not found for addition", m)
    /\ \A k \in DOMAIN resp.errors : resp.errors[k].kind \in ErrorKinds
    /\ \A k \in DOMAIN resp.changes : resp.changes[k].kind \in {"Removed", "Added"}

C3_Witness ==
  /\ EditProcessed(resp)
  /\ \E k \in DOMAIN resp.errors : resp.errors[k].kind = "not found for addition"
  /\ \E k \in DOMAIN resp.errors : resp.errors[k].kind = "was not assigned"
  /\ \E k \in DOMAIN resp.changes : resp.changes[k].kind = "Added"

\* C4: assigning a mechanic, or attaching a part, to a ticket when both
\* exist leaves the pair in the relation: the call that finds the pair absent
\* adds it and answers 200, the call that finds it present answers 400
\* "already assigned" and changes nothing.
C4_AssignTwiceOnePair ==
  [][/\ (/\ resp'.op = "assign_mechanic" /\ resp'.guard = "pass"
         /\ Exists(tickets, resp'.a) /\ Exists(mechanics, resp'.b)) =>
          /\ resp'.b \in ticketMechs'[resp'.a]
          /\ resp'.status = IF resp'.b \in ticketMechs[resp'.a] THEN 400 ELSE 200
          /\ resp'.status = 400 => UNCHANGED store
     /\ (/\ resp'.op = "add_inventory" /\ resp'.guard = "pass"
         /\ Exists(tickets, resp'.a) /\ Exists(inventory, resp'.b)) =>
          /\ resp'.b \in ticketParts'[resp'.a]
          /\ resp'.status = IF resp'.b \in ticketParts[resp'.a] THEN 400 ELSE 200
          /\ resp'.status = 400 => UNCHANGED store]_vars

\* the token a request carried behind "Bearer "
Presented(r) == r.hdr[2].tok
CarriesBearer(r) == r.hdr # NoHeader /\ StartsWithBearer(r.hdr) /\ Len(r.hdr) = 2

\* C5: a valid token of customer A on PUT or DELETE /customers/B with A # B
\* is answered 403, whatever the payload and whether or not B exists, and
\* the customers table is unchanged.
C5_ForeignCustomerForbidden ==
  [][(/\ resp'.op \in {"update_customer", "delete_customer"}
      /\ CarriesBearer(resp')
      /\ Presented(resp').role # "mechanic"
      /\ resp'.guard = "pass"
      /\ ToInt(Presented(resp').sub) # resp'.a) =>
        (resp'.status = 403 /\ customers' = customers)]_vars

GuardedOps ==
  {"update_customer", "delete_customer", "get_my_tickets", "create_service_ticket",
   "get_service_tickets", "assign_mechanic", "remove_mechanic", "edit",
   "add_inventory", "get_cost", "create_inventory", "bulk_create_inventory",
   "update_inventory", "delete_inventory"}

MechanicOps ==
  {"get_service_tickets", "assign_mechanic", "remove_mechanic", "edit",
   "add_inventory", "get_cost", "create_inventory", "bulk_create_inventory",
   "update_inventory", "delete_inventory"}

CustomerOps == GuardedOps \ MechanicOps

\* C6: once a principal has been deleted, a request that presents a token
\* issued to it is answered 401 and the handler is not called, in every
\* later state.
C6_DeletedPrincipalRejected ==
  (/\ resp.op \in GuardedOps
   /\ CarriesBearer(resp)
   /\ Presented(resp) \in revoked) =>
     (resp.status = 401 /\ resp.guard = "denied")

\* C7: a mechanic-only route answers a validly signed, unexpired token whose
\* role is not 'mechanic' with 403; the handler is not called and no stored
\* state changes.
C7_MechanicRoleRequired ==
  [][(/\ resp'.op \in MechanicOps
      /\ CarriesBearer(resp')
      /\ Presented(resp').sig = "ok"
      /\ Presented(resp').exp > now
      /\ Presented(resp').role # "mechanic") =>
        (resp'.status = 403 /\ resp'.guard = "denied" /\ UNCHANGED store)]_vars

C7_Witness ==
  /\ resp.op = "create_inventory"
  /\ CarriesBearer(resp)
  /\ Presented(resp).sig = "ok"
  /\ Presented(resp).exp > now
  /\ Presented(resp).role = "customer"
  /\ Exists(mechanics, ToInt(Presented(resp).sub))
  /\ resp.status = 403

\* C8: a protected request whose Authorization header is not exactly
\* 'Bearer <token>' (absent, another scheme, no scheme, no token) is
\* answered 401 and the handler is not called.
C8_BearerShapeRequired ==
  (/\ resp.op \in GuardedOps
   /\ ~(CarriesBearer(resp) /\ ~Falsy(Presented(resp)))) =>
     (resp.status = 401 /\ resp.guard = "denied")

\* a held token's principal is stored, in the table of the token's role
PrincipalExists(token) ==
  IF token.role = "mechanic" THEN Exists(mechanics, ToInt(token.sub))
  ELSE Exists(customers, ToInt(token.sub))

OwnOps(token) == IF token.role = "mechanic" THEN MechanicOps ELSE CustomerOps

CustomerEmailTaken(r) ==
  \E i \in Rows(customers) :
    i # r.a /\ r.text # Absent /\ Lower(customers[i].email) = Lower(r.text)

\* C10: no two stored customers have emails that are equal ignoring case,
\* and a registration, or an update that passed the guard, whose address
\* another customer holds in some letter case is rejected as a duplicate
\* (400 or 409).
C10_CustomerEmailsUniqueIgnoringCase ==
  /\ \A i \in Rows(customers), j \in Rows(customers) :
       i # j => Lower(customers[i].email) # Lower(customers[j].email)
  /\ (/\ \/ resp.op = "create_customer"
         \/ resp.op = "update_customer" /\ resp.guard = "pass"
      /\ CustomerEmailTaken(resp)) => resp.status \in {400, 409}

\* C11: no two stored mechanics have emails that are equal ignoring case.
C11_MechanicEmailsUniqueIgnoringCase ==
  \A i \in Rows(mechanics), j \in Rows(mechanics) :
    i # j => Lower(mechanics[i].email) # Lower(mechanics[j].email)

\* C12: no two stored inventory items have names that are equal ignoring
\* case, after any create, bulk create, update and delete.
C12_InventoryNamesUniqueIgnoringCase ==
  \A i \in Rows(inventory), j \in Rows(inventory) :
    i # j => Lower(inventory[i].name) # Lower(inventory[j].name)

InventoryMutations ==
  {"create_inventory", "bulk_create_inventory", "update_inventory", "delete_inventory"}

\* C13: when an inventory create, bulk create, update or delete has
\* succeeded no cached listing is left, a listing that is not served from
\* the cache is computed from the table, and a cached listing is never older
\* than the table: it is what its request would compute now.
C13_CacheDroppedOnMutation ==
  /\ (resp.op \in InventoryMutations /\ resp.status \in {200, 201}) => cache = NoCache
  /\ (resp.op = "get_inventory" /\ resp.text = "computed") =>
       resp.items = Listing(resp.q)
  /\ cache # NoCache => cache.items = Listing(cache.q)

C13_Witness ==
  /\ resp.op = "delete_inventory"
  /\ resp.status = 200
  /\ resp.dropped
  /\ cache = NoCache

\* the items a query asks for: every parameter that was sent is applied
Satisfying(q) ==
  {i \in Rows(inventory) :
     /\ "name" \in q.fields => Contains(inventory[i].name, q.name)
     /\ "min_price" \in q.fields => inventory[i].price >= q.min_price
     /\ "max_price" \in q.fields => inventory[i].price <= q.max_price}

\* C14: GET /inventory/ returns exactly the items that satisfy all the
\* filters sent with the request, a bound of 0 included, whatever list
\* requests were served before it.
C14_ListingMatchesFilters ==
  resp.op = "get_inventory" =>
    resp.items = {inventory[i] : i \in Satisfying(resp.q)}

\* C15: for an existing ticket the cost request answers 200 with the sum of
\* the current prices of the attached parts and with one entry per attached
\* part, after any attach, price update and part deletion; a missing ticket
\* answers 404; in both cases nothing stored changes.
C15_CostIsSumOfAttachedParts ==
  [][(resp'.op = "get_cost" /\ resp'.guard = "pass") =>
       /\ UNCHANGED store
       /\ IF Exists(tickets, resp'.a)
          THEN /\ resp'.status = 200
               /\ resp'.b = SumPrices(ticketParts[resp'.a])
               /\ resp'.add = ticketParts[resp'.a]
          ELSE resp'.status = 404]_vars

\* C16: every stored service ticket references a stored customer: a ticket
\* is never created on a token whose customer is not stored, and no request,
\* customer deletion included, leaves a ticket without its customer.
C16_TicketsReferenceExistingCustomer ==
  /\ \A t \in Rows(tickets) : Exists(customers, tickets[t].customer_id)
  /\ (/\ resp.op = "create_service_ticket" /\ CarriesBearer(resp)
      /\ ~Exists(customers, ToInt(Presented(resp).sub))) => resp.status # 201

C16_Witness ==
  /\ resp.op = "delete_customer" /\ resp.guard = "pass" /\ resp.a = 1
  /\ ToInt(Presented(resp).sub) = 1
  /\ HasTickets(1) /\ Exists(customers, 1)

MutatingOps ==
  {"create_customer", "update_customer", "delete_customer",
   "create_mechanic", "update_mechanic", "delete_mechanic",
   "create_service_ticket", "assign_mechanic", "remove_mechanic", "edit",
   "add_inventory", "create_inventory", "bulk_create_inventory",
   "update_inventory", "delete_inventory"}

\* C17: a mutating request that is answered with an error status (4xx or
\* 5xx) leaves every table, every association and the cached listing exactly
\* as they were before the request.
C17_ErrorLeavesStoreUnchanged ==
  [][(resp'.op \in MutatingOps /\ resp'.status >= 400) => store' = store]_vars

C17_Witness ==
  /\ resp.op = "bulk_create_inventory" /\ resp.status = 409 /\ resp.b = 2
  /\ InventoryILike("nut") = {} /\ InventoryILike("Bolt") # {}

CustomerBodyOps ==
  {"create_customer", "get_customer", "get_all_customers", "update_customer", "login"}

\* C18: a registration with every required field, a well formed address and
\* an address no customer holds is answered 201; the customer fetched by an
\* id carries the address stored under that id; and no body of a customer
\* endpoint carries the password or its hash.
C18_CustomerRoundTrip ==
  /\ (/\ resp.op = "create_customer" /\ validate_email(resp.text)
      /\ \A i \in Rows(customers) : i = resp.a \/ customers[i].email # resp.text) =>
        (resp.status = 201 /\ Exists(customers, resp.a)
           /\ customers[resp.a].email = resp.text)
  /\ (resp.op = "get_customer" /\ resp.status = 200) =>
        resp.text = customers[resp.a].email
  /\ resp.op \in CustomerBodyOps => resp.keys \cap {"password", "password_hash"} = {}

\* C19: GET /customers/my-tickets with a token the guard accepts answers 200
\* with exactly the tickets whose customer_id is the subject of the token.
C19_MyTicketsAreOwnTickets ==
  (resp.op = "get_my_tickets" /\ resp.guard = "pass") =>
    /\ resp.status = 200
    /\ resp.add = {t \in Rows(tickets) :
                     tickets[t].customer_id = ToInt(Presented(resp).sub)}

\* C20: a request to assign-mechanic by a caller whose count in the current
\* window has reached the ceiling is answered 429 without the guard or the
\* handler running and leaves the store and the counts unchanged; below the
\* ceiling, and so after a new window has started, the request is admitted
\* and counted.
C20_CeilingRejectsBeforeGuard ==
  [][\A c \in Callers :
       (/\ resp'.caller = c /\ resp = R0
        /\ resp'.op \in {"assign_mechanic", "rate_limited"}) =>
         IF hits[c] >= AssignLimit
         THEN /\ resp'.status = 429 /\ resp'.guard = "none"
              /\ store' = store /\ hits' = hits
         ELSE /\ resp'.status # 429 /\ resp'.guard # "none"
              /\ hits'[c] = hits[c] + 1]_vars

C20_Witness ==
  /\ resp.op = "rate_limited" /\ resp.status = 429 /\ resp.hdr = NoHeader
  /\ hits[resp.caller] = AssignLimit
  /\ \E c \in Callers : hits[c] < AssignLimit

\* C21: whatever per_page is requested, a page of the inventory listing
\* holds at most 100 items and reports a per_page of at most 100.
C21_PageAtMostHundred ==
  resp.op = "get_inventory_page" =>
    (resp.pg.count <= 100 /\ resp.pg.per_page <= 100)

C21_Witness ==
  /\ resp.op = "get_inventory_page" /\ resp.pg.asked = 500 /\ resp.pg.total > 100
  /\ resp.pg.count = 100 /\ resp.pg.per_page = 100

\* C22: the guard looks the principal up in the table the token's role
\* selects, so a token issued to mechanic n is never accepted as customer n
\* on a customer-gated route, even when customer n is stored.
C22_MechanicTokenIsNoCustomer ==
  (/\ resp.op \in CustomerOps
   /\ CarriesBearer(resp)
   /\ Presented(resp) \in held
   /\ Presented(resp).role = "mechanic") =>
     resp.guard = "denied"

\* the token the guard reads: the second part of the header
GuardRead(r) == IF r.hdr # NoHeader /\ Len(r.hdr) >= 2 THEN r.hdr[2].tok ELSE NoToken

C24_EditCommitsOnlyChanges ==
  [][resp'.op = "edit" =>
       /\ resp'.changes = <<>> => store' = store
       /\ resp'.status \in {400, 404} => (resp'.changes = <<>> /\ store' = store)
       /\ \A t \in TicketIds : t # resp'.a => ticketMechs'[t] = ticketMechs[t]
       /\ <<customers, mechanics, tickets, inventory, ticketParts, cache>>' =
            <<customers, mechanics, tickets, inventory, ticketParts, cache>>]_vars

\* an edit of assigned mechanics that records errors only
C24_Witness ==
  /\ EditProcessed(resp) /\ resp.status = 400
  /\ resp.changes = <<>> /\ resp.errors # <<>>
  /\ ticketMechs[resp.a] # {}

\* an edit of a ticket that is not stored
C24_WitnessMissing ==
  /\ resp.op = "edit" /\ resp.status = 404 /\ resp.guard = "pass"
  /\ \E t \in TicketIds : ticketMechs[t] # {}

\* the rows other than `own` that hold `value`, letter case ignored
HeldByAnother(table, field, own, value) ==
  {j \in Rows(table) : j # own /\ Lower(table[j][field]) = Lower(value)}

\* C25: an update of a unique field is rejected as a conflict exactly when
\* another entity holds the new value, letter case ignored; the entity's own
\* row does not count, so an item may take its own name in another letter
\* case.
C25_UpdateConflictExcludesOwnRow ==
  [][/\ (/\ resp'.op = "update_inventory" /\ resp'.status \in {200, 409}) =>
          ((resp'.status = 409) <=>
             HeldByAnother(inventory, "name", resp'.a, resp'.text) # {})
     /\ (/\ resp'.op = "update_mechanic" /\ resp'.status \in {200, 400, 409}
         /\ Exists(mechanics, resp'.a) /\ resp'.text \in MechEmails) =>
          ((resp'.status # 200) <=>
             HeldByAnother(mechanics, "email", resp'.a, resp'.text) # {})
     /\ (/\ resp'.op = "update_customer" /\ resp'.status \in {200, 409}) =>
          ((resp'.status = 409) <=>
             HeldByAnother(customers, "email", resp'.a, resp'.text) # {})]_vars

\* every association row names a stored ticket and a stored mechanic or part
AssociationsSound ==
  \A t \in TicketIds :
    /\ (ticketMechs[t] # {} \/ ticketParts[t] # {}) => Exists(tickets, t)
    /\ \A m \in ticketMechs[t] : Exists(mechanics, m)
    /\ \A i \in ticketParts[t] : Exists(inventory, i)

C27_TokenRoundTrip ==
  /\ \A n \in CustIds :
       /\ encode_token(n).sub = StrOf(n)
       /\ decode_token(encode_token(n)) = [err |-> "", id |-> IntOf(n)]
  /\ \A t \in held : t.sub.t = "str"
  /\ (/\ resp.op \in GuardedOps /\ CarriesBearer(resp)
      /\ Presented(resp) \in held /\ now < Presented(resp).exp
      /\ PrincipalExists(Presented(resp))
      /\ resp.op \in OwnOps(Presented(resp))) => resp.guard = "pass"

\* C28: however two requests that add the same mechanic to the same ticket
\* interleave, the association table holds the pair at most once, and the
\* request whose insert comes second is answered with an error, its
\* transaction rolled back.
C28_PairAtMostOnce ==
  [][/\ \A p \in DOMAIN flight.rows : flight.rows'[p] <= 1
     /\ \A t \in TicketIds :
          ticketMechs'[t] = {m \in MechIds : flight.rows'[<<t, m>>] > 0}
     /\ \A w \in Workers :
          (/\ flight.req[w].pc = "read" /\ flight.req'[w].pc = "done"
           /\ flight.req[w].changes # <<>>
           /\ (flight.req[w].ins \ flight.req[w].del)
                 \cap ticketMechs[flight.req[w].a] # {}) =>
            (/\ flight.req'[w].status = 500
             /\ ticketMechs' = ticketMechs
             /\ flight.rows' = flight.rows)]_vars

\* both requests added mechanic 1 to ticket 1: one was answered 200, the
\* other 500, and the pair is stored once
C28_Witness ==
  /\ \A w \in Workers : flight.req[w].pc = "done" /\ flight.req[w].ins = {1}
  /\ {flight.req[w].status : w \in Workers} = {200, 500}
  /\ flight.rows[<<1, 1>>] = 1

\* the ids a request in flight names
Named(r) == r.add \cup r.remove

\* what the answer of a request in flight reports about mechanic m
Reports(r, kind, m) == \E k \in DOMAIN r.changes : r.changes[k] = Entry(kind, m)

\* C29: two bulk edits of the same ticket that name disjoint sets of ids, the
\* second reading before the first has committed: after both have finished, every change either of them reported is in the
\* stored set of mechanics.
C29_NoLostUpdate ==
  (/\ \A w \in Workers : flight.req[w].pc = "done" /\ flight.req[w].op = "edit"
   /\ \E w \in Workers : flight.req[w].during # {}
   /\ flight.req[1].a = flight.req[2].a
   /\ Named(flight.req[1]) \cap Named(flight.req[2]) = {}) =>
     \A w \in Workers, m \in MechIds :
       /\ Reports(flight.req[w], "Added", m) => m \in ticketMechs[flight.req[w].a]
       /\ (Reports(flight.req[w], "Removed", m)
            /\ ~Reports(flight.req[w], "Added", m)) =>
             m \notin ticketMechs[flight.req[w].a]

\* both requests read before either committed, and both reported a change
C29_Witness ==
  /\ \A w \in Workers : flight.req[w].pc = "done" /\ flight.req[w].status = 200
  /\ flight.req[1].ins = {1} /\ flight.req[2].ins = {2}
  /\ flight.req[1].out = {1} /\ flight.req[2].out = {2}
  /\ ticketMechs[1] = {1, 2}

\* C30: however a listing and a change of the inventory interleave, once no
\* listing is on its way the key "all_inventory" holds no listing that was
\* computed before the change was committed: what is cached under the key is
\* the listing of the table as it is.
C30_CacheNotStale ==
  (/\ \A w \in Workers : flight.req[w].pc # "computed"
   /\ cache # NoCache) =>
     cache.items = Listing(cache.q)

====
